---- MODULE Spec2Model ----
(***************************************************************************)
(* State machine of the TransactionForm component of zkevm-bridge-ui       *)
(* (src/unnamed/part_000, lines 36-220) with the chain configuration of    *)
(* src/src/constants.ts.  One action per event handler, prop change or     *)
(* promise completion; every action includes the re-render and the         *)
(* useEffect callbacks that the state change triggers.                     *)
(***************************************************************************)
EXTENDS Integers, Sequences, FiniteSets

VARIABLES
    mounted,         \* the first render and its effects have run
    env,             \* useEnvContext(): TRUE once the environment is available
    transaction,     \* prop `transaction` (optional)
    account,         \* prop `account`
    list,            \* useState<List>()
    balanceFrom,     \* useState<BigNumber>()
    balanceTo,       \* useState<BigNumber>()
    inputError,      \* useState<string>()
    chains,          \* useState<FormChains>()
    token,           \* useState<Token>()
    amount,          \* useState<BigNumber>()
    estimatedFee,    \* useState<AsyncTask<BigNumber, string>>
    feeRequests,     \* estimateBridgeGasPrice promises not yet settled
    balanceRequests, \* getBalance promises not yet settled
    parseTasks,      \* number of parseError promises not yet settled, per error
    snackbar,        \* calls made to openSnackbar, in order
    submitted,       \* calls made to onSubmit, in order
    feeSeq,          \* number of estimateBridgeGasPrice calls made so far
    balSeq,          \* number of runs of the balance effect so far
    lastOp           \* history: the operation that produced the current state,
                     \* when it is a "from" selection or an insufficient-funds
                     \* rejection ("other" otherwise)

vars == <<mounted, env, transaction, account, list, balanceFrom, balanceTo,
          inputError, chains, token, amount, estimatedFee, feeRequests,
          balanceRequests, parseTasks, snackbar, submitted, feeSeq, balSeq,
          lastOp>>

---------------------------------------------------------------------------
(* Bounds of the model *)

\* number of runs of the estimation effect explored
MaxRequests == 2
\* number of onSubmit calls explored
MaxSubmits == 1

---------------------------------------------------------------------------
(* Optional values: `undefined` or a value *)

undefined == <<>>
Some(v) == <<v>>
IsSet(o) == o # <<>>
Get(o) == o[1]

---------------------------------------------------------------------------
(* Configuration and input domains *)

\* keys of the chains returned by getChains, in order
getChains == <<"ethereum", "polygon-hermez">>

ETH_TOKEN == "ETH"

getUsdtToken == "USDT"

Tokens == {ETH_TOKEN, getUsdtToken}

Accounts == {"0xA", "0xB"}

\* the account the form is mounted with
InitialAccount == "0xA"

\* amounts the amount input can report (BigNumber values)
Amounts == {0, 1}

\* validation messages the amount input can report
InputErrors == {"Insufficient balance"}

\* rejection reasons of estimateBridgeGasPrice (ethers errors: code and message)
FeeErrors ==
    { [code |-> "INSUFFICIENT_FUNDS", message |-> "insufficient funds for gas"],
      [code |-> "INSUFFICIENT_FUNDS", message |-> "insufficient funds for transfer"],
      [code |-> "NETWORK_ERROR", message |-> "could not detect network"] }

\* values of the optional `transaction` prop: TransactionData over the
\* configured chains, as produced by an earlier pass through the form
TransactionProps ==
    { [from |-> getChains[2], to |-> getChains[1], token |-> getUsdtToken, amount |-> 1] }

\* src/utils/types: the rejection is the ethers "insufficient funds" error
isEthersInsufficientFundsError(error) == error.code = "INSUFFICIENT_FUNDS"

\* src/adapters/error: the human-readable message of a rejection
parseError(error) == error.message

InsufficientFundsMessage == "You don't have enough ETH to pay for the fees"

---------------------------------------------------------------------------
(* Pure parts of the component *)

\* Array.prototype.find over the configured chains: the first chain whose key
\* differs from `from`, or undefined
RECURSIVE findFrom(_, _)
findFrom(i, from) ==
    IF i > Len(getChains) THEN undefined
    ELSE IF getChains[i] # from THEN Some(getChains[i])
    ELSE findFrom(i + 1, from)

findOther_first(from) == Some(getChains[1])

findOther(from) == findFrom(1, from)

\* line 127: the component returns null until env, chains and token are set
Rendered == mounted /\ env /\ IsSet(chains) /\ IsSet(token)

\* lines 199-204: the `disabled` prop of the Continue button
disabled ==
    \/ ~IsSet(amount)
    \/ Get(amount) = 0
    \/ inputError # undefined
    \/ estimatedFee.status = "failed"

SubmitEnabled == Rendered /\ ~disabled

\* lines 208-209: the Error elements rendered under the button, in order
ErrorsShown_noPrecedence ==
    (IF IsSet(amount) /\ IsSet(inputError) THEN <<Get(inputError)>> ELSE <<>>)
    \o (IF estimatedFee.status = "failed" THEN <<estimatedFee.error>> ELSE <<>>)

ErrorsShown ==
    (IF IsSet(amount) /\ IsSet(inputError) /\ estimatedFee.status # "failed"
        THEN <<Get(inputError)>> ELSE <<>>)
    \o (IF estimatedFee.status = "failed" THEN <<estimatedFee.error>> ELSE <<>>)

\* line 72: the condition under which onFormSubmit calls onSubmit
canEmit ==
    IsSet(chains) /\ IsSet(token) /\ IsSet(amount) /\ estimatedFee.status = "successful"

\* lines 112-123: what the catch handler does with a rejection
\*   fee:   the value passed to setEstimatedFee, if it is called
\*   parse: whether parseError(error) is started
feeCatch_alwaysNotify(error) ==
    IF isEthersInsufficientFundsError(error)
        THEN [fee |-> Some([status |-> "failed", error |-> InsufficientFundsMessage]),
              parse |-> TRUE]
        ELSE [fee |-> undefined, parse |-> TRUE]

feeCatch(error) ==
    IF isEthersInsufficientFundsError(error)
        THEN [fee |-> Some([status |-> "failed", error |-> InsufficientFundsMessage]),
              parse |-> FALSE]
        ELSE [fee |-> undefined, parse |-> TRUE]

---------------------------------------------------------------------------
(* Effects *)

\* lines 94-99: the balance effect, run after a render in which chains or
\* account changed
balanceEffect(run, c, a) ==
    IF run /\ IsSet(c)
        THEN /\ balSeq' = balSeq + 1
             /\ balanceRequests' = balanceRequests \cup
                    { [id |-> balSeq + 1, side |-> "from", chain |-> Get(c).from, account |-> a],
                      [id |-> balSeq + 1, side |-> "to", chain |-> Get(c).to, account |-> a] }
        ELSE UNCHANGED <<balSeq, balanceRequests>>

\* lines 101-108: the estimation effect, run after a render in which account,
\* chains or token changed
feeEffect(run, c, t, a) ==
    IF run /\ IsSet(c) /\ IsSet(t)
        THEN /\ feeSeq' = feeSeq + 1
             /\ feeRequests' = feeRequests \cup
                    { [id |-> feeSeq + 1, from |-> Get(c).from, to |-> Get(c).to,
                       token |-> Get(t), destinationAddress |-> a] }
        ELSE UNCHANGED <<feeSeq, feeRequests>>

\* lines 83-92: the initialisation effect, run when env or transaction changed,
\* followed by the effects of the render it causes
initEffect_reversedDefaults(e, tx, a) ==
    IF IsSet(tx)
        THEN /\ chains' = Some([from |-> Get(tx).from, to |-> Get(tx).to])
             /\ token' = Some(Get(tx).token)
             /\ amount' = Some(Get(tx).amount)
             /\ balanceEffect(TRUE, chains', a)
             /\ feeEffect(TRUE, chains', token', a)
        ELSE IF e
        THEN /\ chains' = Some([from |-> getChains[2], to |-> getChains[1]])
             /\ token' = Some(ETH_TOKEN)
             /\ amount' = amount
             /\ balanceEffect(TRUE, chains', a)
             /\ feeEffect(TRUE, chains', token', a)
        ELSE /\ UNCHANGED <<chains, token, amount>>
             /\ balanceEffect(FALSE, chains, a)
             /\ feeEffect(FALSE, chains, token, a)

initEffect(e, tx, a) ==
    IF IsSet(tx)
        THEN /\ chains' = Some([from |-> Get(tx).from, to |-> Get(tx).to])
             /\ token' = Some(Get(tx).token)
             /\ amount' = Some(Get(tx).amount)
             /\ balanceEffect(TRUE, chains', a)
             /\ feeEffect(TRUE, chains', token', a)
        ELSE IF e
        THEN /\ chains' = Some([from |-> getChains[1], to |-> getChains[2]])
             /\ token' = Some(ETH_TOKEN)
             /\ amount' = amount
             /\ balanceEffect(TRUE, chains', a)
             /\ feeEffect(TRUE, chains', token', a)
        ELSE /\ UNCHANGED <<chains, token, amount>>
             /\ balanceEffect(FALSE, chains, a)
             /\ feeEffect(FALSE, chains, token, a)

---------------------------------------------------------------------------
(* Initial state: the useState initial values (lines 41-51) and the props *)

Init ==
    /\ mounted = FALSE
    /\ env \in BOOLEAN
    /\ transaction \in {undefined} \cup { Some(tx) : tx \in TransactionProps }
    /\ account = InitialAccount
    /\ list = undefined
    /\ balanceFrom = undefined
    /\ balanceTo = undefined
    /\ inputError = undefined
    /\ chains = undefined
    /\ token = undefined
    /\ amount = undefined
    /\ estimatedFee = [status |-> "pending"]
    /\ feeRequests = {}
    /\ balanceRequests = {}
    /\ parseTasks = [error \in FeeErrors |-> 0]
    /\ snackbar = <<>>
    /\ submitted = <<>>
    /\ feeSeq = 0
    /\ balSeq = 0
    /\ lastOp = "other"

---------------------------------------------------------------------------
(* Actions *)

\* first render: all three effects run once (lines 83-125)
Mount ==
    /\ ~mounted
    /\ mounted' = TRUE
    /\ initEffect(env, transaction, account)
    /\ lastOp' = "other"
    /\ UNCHANGED <<env, transaction, account, list, balanceFrom, balanceTo,
                   inputError, estimatedFee, parseTasks, snackbar, submitted>>

\* the environment becomes available: the initialisation effect runs again
EnvLoaded ==
    /\ mounted /\ ~env
    /\ feeSeq < MaxRequests
    /\ env' = TRUE
    /\ initEffect(TRUE, transaction, account)
    /\ lastOp' = "other"
    /\ UNCHANGED <<mounted, transaction, account, list, balanceFrom, balanceTo,
                   inputError, estimatedFee, parseTasks, snackbar, submitted>>

\* the caller passes another `transaction` prop
SetTransaction(tx) ==
    /\ mounted
    /\ feeSeq < MaxRequests
    /\ tx # transaction
    /\ transaction' = tx
    /\ initEffect(env, tx, account)
    /\ lastOp' = "other"
    /\ UNCHANGED <<mounted, env, account, list, balanceFrom, balanceTo,
                   inputError, estimatedFee, parseTasks, snackbar, submitted>>

SetAccount_balancesOnly(a) ==
    /\ mounted
    /\ feeSeq < MaxRequests
    /\ a # account
    /\ account' = a
    /\ balanceEffect(TRUE, chains, a)
    /\ lastOp' = "other"
    /\ UNCHANGED <<mounted, env, transaction, list, balanceFrom, balanceTo,
                   inputError, chains, token, amount, estimatedFee, parseTasks,
                   snackbar, submitted, feeSeq, feeRequests>>

\* the caller passes another `account` prop: the balance and estimation
\* effects run again
SetAccount(a) ==
    /\ mounted
    /\ feeSeq < MaxRequests
    /\ a # account
    /\ account' = a
    /\ balanceEffect(TRUE, chains, a)
    /\ feeEffect(TRUE, chains, token, a)
    /\ lastOp' = "other"
    /\ UNCHANGED <<mounted, env, transaction, list, balanceFrom, balanceTo,
                   inputError, chains, token, amount, estimatedFee, parseTasks,
                   snackbar, submitted>>

\* lines 139-145: the "From" button opens the chain list
OpenList ==
    /\ Rendered
    /\ list' = Some("chain")
    /\ lastOp' = "other"
    /\ UNCHANGED <<mounted, env, transaction, account, balanceFrom, balanceTo,
                   inputError, chains, token, amount, estimatedFee, feeRequests,
                   balanceRequests, parseTasks, snackbar, submitted, feeSeq, balSeq>>

\* line 215: the list is closed
CloseList ==
    /\ Rendered /\ IsSet(list)
    /\ list' = undefined
    /\ lastOp' = "other"
    /\ UNCHANGED <<mounted, env, transaction, account, balanceFrom, balanceTo,
                   inputError, chains, token, amount, estimatedFee, feeRequests,
                   balanceRequests, parseTasks, snackbar, submitted, feeSeq, balSeq>>

\* lines 53-63: a chain of the list is picked as "from"
onChainFromButtonClick(from) ==
    /\ Rendered /\ IsSet(list)
    /\ feeSeq < MaxRequests
    /\ IF env /\ IsSet(chains) /\ IsSet(findOther(from))
        THEN /\ chains' = Some([from |-> from, to |-> Get(findOther(from))])
             /\ list' = undefined
             /\ amount' = undefined
             /\ balanceEffect(TRUE, chains', account)
             /\ feeEffect(TRUE, chains', token, account)
        ELSE UNCHANGED <<chains, list, amount, balSeq, balanceRequests, feeSeq, feeRequests>>
    /\ lastOp' = "onChainFromButtonClick"
    /\ UNCHANGED <<mounted, env, transaction, account, balanceFrom, balanceTo,
                   inputError, token, estimatedFee, parseTasks, snackbar, submitted>>

onInputChange_reestimate(a, error) ==
    /\ Rendered
    /\ feeSeq < MaxRequests
    /\ amount' = a
    /\ inputError' = error
    /\ feeEffect(TRUE, chains, token, account)
    /\ lastOp' = "other"
    /\ UNCHANGED <<mounted, env, transaction, account, list, balanceFrom,
                   balanceTo, chains, token, estimatedFee, balanceRequests,
                   parseTasks, snackbar, submitted, balSeq>>

\* lines 65-68: the amount input reports a new amount and validation error
onInputChange(a, error) ==
    /\ Rendered
    /\ amount' = a
    /\ inputError' = error
    /\ lastOp' = "other"
    /\ UNCHANGED <<mounted, env, transaction, account, list, balanceFrom,
                   balanceTo, chains, token, estimatedFee, feeRequests,
                   balanceRequests, parseTasks, snackbar, submitted, feeSeq, balSeq>>

\* lines 70-81: a submit event reaches the form
onFormSubmit ==
    /\ Rendered
    /\ Len(submitted) < MaxSubmits
    /\ submitted' =
        IF canEmit
            THEN Append(submitted, [token |-> Get(token), from |-> Get(chains).from,
                                    to |-> Get(chains).to, amount |-> Get(amount),
                                    estimatedFee |-> estimatedFee.data])
            ELSE submitted
    /\ lastOp' = "other"
    /\ UNCHANGED <<mounted, env, transaction, account, list, balanceFrom,
                   balanceTo, inputError, chains, token, amount, estimatedFee,
                   feeRequests, balanceRequests, parseTasks, snackbar, feeSeq, balSeq>>

\* lines 109-111: an estimation promise fulfils; the fee is the one computed
\* for the request's parameters
FeeResolve(r) ==
    /\ r \in feeRequests
    /\ feeRequests' = feeRequests \ {r}
    /\ estimatedFee' = [status |-> "successful", data |-> r]
    /\ lastOp' = "other"
    /\ UNCHANGED <<mounted, env, transaction, account, list, balanceFrom,
                   balanceTo, inputError, chains, token, amount, balanceRequests,
                   parseTasks, snackbar, submitted, feeSeq, balSeq>>

\* lines 112-123: an estimation promise rejects
FeeReject(r, error) ==
    /\ r \in feeRequests
    /\ feeRequests' = feeRequests \ {r}
    /\ estimatedFee' = IF IsSet(feeCatch(error).fee) THEN Get(feeCatch(error).fee)
                       ELSE estimatedFee
    /\ parseTasks' = IF feeCatch(error).parse
                        THEN [parseTasks EXCEPT ![error] = @ + 1]
                        ELSE parseTasks
    /\ lastOp' = IF isEthersInsufficientFundsError(error)
                    THEN "FeeReject:insufficient" ELSE "other"
    /\ UNCHANGED <<mounted, env, transaction, account, list, balanceFrom,
                   balanceTo, inputError, chains, token, amount, balanceRequests,
                   snackbar, submitted, feeSeq, balSeq>>

\* lines 119-121: parseError fulfils and the message goes to the snackbar
ParseResolve(error) ==
    /\ parseTasks[error] > 0
    /\ parseTasks' = [parseTasks EXCEPT ![error] = @ - 1]
    /\ snackbar' = Append(snackbar, [type |-> "error-msg", text |-> parseError(error)])
    /\ lastOp' = "other"
    /\ UNCHANGED <<mounted, env, transaction, account, list, balanceFrom,
                   balanceTo, inputError, chains, token, amount, estimatedFee,
                   feeRequests, balanceRequests, submitted, feeSeq, balSeq>>

BalanceResolve_alwaysFrom(b) ==
    /\ b \in balanceRequests
    /\ balanceRequests' = balanceRequests \ {b}
    /\ balanceFrom' = Some([chain |-> b.chain, account |-> b.account])
    /\ UNCHANGED balanceTo
    /\ lastOp' = "other"
    /\ UNCHANGED <<mounted, env, transaction, account, list, inputError, chains,
                   token, amount, estimatedFee, feeRequests, parseTasks, snackbar,
                   submitted, feeSeq, balSeq>>

\* lines 96-97: a getBalance promise fulfils; the balance is the one of the
\* request's account on the request's chain
BalanceResolve(b) ==
    /\ b \in balanceRequests
    /\ balanceRequests' = balanceRequests \ {b}
    /\ IF b.side = "from"
        THEN balanceFrom' = Some([chain |-> b.chain, account |-> b.account])
             /\ UNCHANGED balanceTo
        ELSE balanceTo' = Some([chain |-> b.chain, account |-> b.account])
             /\ UNCHANGED balanceFrom
    /\ lastOp' = "BalanceResolve"
    /\ UNCHANGED <<mounted, env, transaction, account, list, inputError, chains,
                   token, amount, estimatedFee, feeRequests, parseTasks, snackbar,
                   submitted, feeSeq, balSeq>>

\* lines 96-97: a getBalance promise rejects; there is no rejection handler
BalanceReject(b) ==
    /\ b \in balanceRequests
    /\ balanceRequests' = balanceRequests \ {b}
    /\ lastOp' = "BalanceReject"
    /\ UNCHANGED <<mounted, env, transaction, account, list, balanceFrom,
                   balanceTo, inputError, chains, token, amount, estimatedFee,
                   feeRequests, parseTasks, snackbar, submitted, feeSeq, balSeq>>

\* the event handlers and prop changes of the component
Handlers ==
    \/ Mount
    \/ EnvLoaded
    \/ \E tx \in {undefined} \cup { Some(t) : t \in TransactionProps } : SetTransaction(tx)
    \/ \E a \in Accounts : SetAccount(a)
    \/ OpenList
    \/ CloseList
    \/ \E i \in 1..Len(getChains) : onChainFromButtonClick(getChains[i])
    \/ \E a \in {undefined} \cup { Some(n) : n \in Amounts },
          e \in {undefined} \cup { Some(m) : m \in InputErrors } : onInputChange(a, e)
    \/ onFormSubmit

Next ==
    \/ Handlers
    \/ \E r \in feeRequests : FeeResolve(r)
    \/ \E r \in feeRequests, e \in FeeErrors : FeeReject(r, e)
    \/ \E e \in FeeErrors : ParseResolve(e)

\* The form with the estimation promises settling; the getBalance promises
\* stay pending (they write balanceFrom and balanceTo only).
Spec == Init /\ [][Next]_vars

NextBalance ==
    \/ Handlers
    \/ \E b \in balanceRequests : BalanceResolve(b)
    \/ \E b \in balanceRequests : BalanceReject(b)

\* The form with the getBalance promises settling; the estimation promises
\* stay pending (they write estimatedFee and the snackbar only).
SpecBalance == Init /\ [][NextBalance]_vars

---------------------------------------------------------------------------
(* Properties *)

\* the request was made for the chains, token and account of the current state
Current(r) ==
    /\ IsSet(chains) /\ IsSet(token)
    /\ r.from = Get(chains).from
    /\ r.to = Get(chains).to
    /\ r.token = Get(token)
    /\ r.destinationAddress = account

\* a request for another tuple than the current one, started before the most
\* recent request
Stale(r) == r.id < feeSeq /\ ~Current(r)

\* the fee-estimation tuple
FeeTuple == <<chains, token, account>>

\* the validity conditions the form is specified to require of a submission
ValidDraft ==
    /\ IsSet(amount)
    /\ Get(amount) > 0
    /\ inputError = undefined
    /\ estimatedFee.status = "successful"

\* C1: the completion of a fee-estimation request that was started for a
\* tuple that has changed since, and is no longer the most recently started
\* one, never changes estimatedFee.
C1_StaleFeeDropped ==
    [][\A r \in feeRequests :
          (Stale(r) /\ r \notin feeRequests') => estimatedFee' = estimatedFee]_vars

\* C2: whenever the form is rendered, the Continue button is enabled if and
\* only if amount is set, amount > 0, inputError is unset and estimatedFee is
\* successful.
C2_SubmitGate == Rendered => (~disabled <=> ValidDraft)

\* C3: in the state right after a "from" chain was selected, amount is unset,
\* inputError is unset and estimatedFee is pending.
C3_FromSelectionResets ==
    lastOp = "onChainFromButtonClick" =>
        /\ amount = undefined
        /\ inputError = undefined
        /\ estimatedFee.status = "pending"

\* C4: onFormSubmit calls onSubmit only in states where amount is set and
\* valid (amount > 0, inputError unset) and estimatedFee is successful.
C4_EmitOnlyValid == [][submitted' # submitted => ValidDraft]_vars

\* C5: a fee estimation that fails with a generic error moves estimatedFee to
\* failed and starts exactly one notification (parseError then openSnackbar)
\* for that failure.
C5_GenericFailure ==
    [][\A r \in feeRequests, e \in FeeErrors :
          (~isEthersInsufficientFundsError(e) /\ FeeReject(r, e)) =>
              /\ estimatedFee'.status = "failed"
              /\ parseTasks' = [parseTasks EXCEPT ![e] = @ + 1]]_vars

\* C6: a fee estimation that fails with insufficient funds moves estimatedFee
\* to failed with the one fixed message, starts no notification and leaves
\* submit disabled; no notification ever carries an insufficient-funds error.
C6_InsufficientFunds ==
    /\ [][lastOp' = "FeeReject:insufficient" =>
            /\ estimatedFee' = [status |-> "failed", error |-> InsufficientFundsMessage]
            /\ parseTasks' = parseTasks
            /\ snackbar' = snackbar
            /\ ~SubmitEnabled']_vars
    /\ [](\A e \in FeeErrors :
            isEthersInsufficientFundsError(e) =>
                /\ parseTasks[e] = 0
                /\ \A i \in 1..Len(snackbar) : snackbar[i].text # parseError(e))

C6_Witness ==
    /\ lastOp = "FeeReject:insufficient"
    /\ Rendered
    /\ IsSet(amount) /\ Get(amount) > 0 /\ inputError = undefined
    /\ estimatedFee.status = "failed"

\* C7: every step that changes the fee-estimation tuple (chains, token or
\* account) to one with chains and token set leaves estimatedFee pending.
C7_ResetToPending ==
    [][(FeeTuple' # FeeTuple /\ IsSet(chains') /\ IsSet(token')) =>
          estimatedFee'.status = "pending"]_vars

\* C8: whenever a chain pair is set, to differs from from; right after a
\* "from" chain was selected, to is the other configured chain.
C8_ToDiffersFromFrom ==
    /\ IsSet(chains) => Get(chains).to # Get(chains).from
    /\ lastOp = "onChainFromButtonClick" =>
          /\ IsSet(chains)
          /\ \E i \in 1..Len(getChains) : Get(chains).from = getChains[i]
          /\ \E i \in 1..Len(getChains) : Get(chains).to = getChains[i]
          /\ Get(chains).to # Get(chains).from

C8_Witness ==
    /\ lastOp = "onChainFromButtonClick"
    /\ Get(chains) = [from |-> getChains[2], to |-> getChains[1]]

\* C9: once the most recently started fee estimation has completed,
\* estimatedFee is successful or failed, not pending.
C9_CompletedReflected ==
    (feeSeq > 0 /\ \A r \in feeRequests : r.id # feeSeq) =>
        estimatedFee.status # "pending"

\* C10: if estimatedFee is failed exactly the fee error is shown; otherwise,
\* if amount is set and inputError is present, exactly inputError is shown;
\* otherwise nothing is shown.
C10_ErrorPrecedence ==
    /\ Len(ErrorsShown) <= 1
    /\ ErrorsShown =
        IF estimatedFee.status = "failed" THEN <<estimatedFee.error>>
        ELSE IF IsSet(amount) /\ IsSet(inputError) THEN <<Get(inputError)>>
        ELSE <<>>

C10_Witness ==
    /\ Rendered
    /\ estimatedFee.status = "failed"
    /\ IsSet(amount)
    /\ IsSet(inputError)

\* C11: the first initialisation without a transaction prop, once the
\* environment is available, gives chains = (configured[0], configured[1]),
\* token = ETH, amount unset and submit disabled; every initialisation with a
\* transaction prop takes from, to, token and amount from that transaction.
C11_Initialisation ==
    [][(Mount \/ EnvLoaded \/ \E tx \in { Some(p) : p \in TransactionProps } : SetTransaction(tx)) =>
          /\ (~IsSet(transaction') /\ ~IsSet(chains) /\ env') =>
                /\ chains' = Some([from |-> getChains[1], to |-> getChains[2]])
                /\ token' = Some(ETH_TOKEN)
                /\ amount' = undefined
                /\ ~SubmitEnabled'
          /\ IsSet(transaction') =>
                /\ chains' = Some([from |-> Get(transaction').from,
                                   to |-> Get(transaction').to])
                /\ token' = Some(Get(transaction').token)
                /\ amount' = Some(Get(transaction').amount)]_vars

C11_Witness ==
    /\ Rendered
    /\ ~IsSet(transaction)
    /\ feeSeq = 1
    /\ Get(chains) = [from |-> getChains[1], to |-> getChains[2]]
    /\ Get(token) = ETH_TOKEN
    /\ amount = undefined
    /\ ~SubmitEnabled

\* C12: a getBalance promise that fulfils sets the balance of its side and
\* leaves the other side's balance alone, whatever has become of the other
\* side's promise; one that rejects changes neither balance, makes no
\* notification, and leaves estimatedFee, amount, inputError and the submit
\* gate as they were.
C12_BalancesIndependent ==
    [][\A b \in balanceRequests :
          /\ BalanceResolve(b) =>
                /\ b.side = "from" =>
                      /\ balanceFrom' = Some([chain |-> b.chain, account |-> b.account])
                      /\ balanceTo' = balanceTo
                /\ b.side = "to" =>
                      /\ balanceTo' = Some([chain |-> b.chain, account |-> b.account])
                      /\ balanceFrom' = balanceFrom
          /\ BalanceReject(b) =>
                /\ balanceFrom' = balanceFrom
                /\ balanceTo' = balanceTo
                /\ snackbar' = snackbar
                /\ parseTasks' = parseTasks
                /\ estimatedFee' = estimatedFee
                /\ amount' = amount
                /\ inputError' = inputError
                /\ SubmitEnabled' = SubmitEnabled]_vars

\* the "from" balance is set although the "to" fetch of the same effect run
\* was rejected
C12_Witness ==
    /\ balSeq = 1
    /\ IsSet(balanceFrom)
    /\ balanceTo = undefined
    /\ balanceRequests = {}
    /\ SubmitEnabled

\* C13: no step takes estimatedFee from one non-pending value directly to
\* another: every change starts from pending or ends in pending.
C13_OnlyThroughPending ==
    [][estimatedFee' # estimatedFee =>
          (estimatedFee.status = "pending" \/ estimatedFee'.status = "pending")]_vars

\* the getBalance request was made for another chain or account than the
\* current one of its side
StaleBalance(b) ==
    ~ /\ IsSet(chains)
      /\ b.account = account
      /\ b.chain = IF b.side = "from" THEN Get(chains).from ELSE Get(chains).to

\* C14: the fulfilment of a getBalance request made for a chain or account
\* that is no longer the current one of its side writes neither balance.
C14_StaleBalanceDropped ==
    [][\A b \in balanceRequests :
          (StaleBalance(b) /\ BalanceResolve(b)) =>
              (balanceFrom' = balanceFrom /\ balanceTo' = balanceTo)]_vars

\* C15: a step of onInputChange leaves estimatedFee, chains, token,
\* balanceFrom and balanceTo unchanged and starts no fee estimation and no
\* balance fetch.
C15_InputChangeFrame ==
    [][(\E a \in {undefined} \cup { Some(n) : n \in Amounts },
           e \in {undefined} \cup { Some(m) : m \in InputErrors } :
               onInputChange(a, e)) =>
          /\ estimatedFee' = estimatedFee
          /\ chains' = chains
          /\ token' = token
          /\ balanceFrom' = balanceFrom
          /\ balanceTo' = balanceTo
          /\ feeRequests' = feeRequests /\ feeSeq' = feeSeq
          /\ balanceRequests' = balanceRequests /\ balSeq' = balSeq]_vars

\* an amount with a validation error has been entered after the estimation
\* succeeded
C15_Witness ==
    /\ Rendered
    /\ IsSet(amount)
    /\ IsSet(inputError)
    /\ estimatedFee.status = "successful"
    /\ feeRequests = {}

\* C16: a step that changes the account while chains and token are set
\* starts a getBalance for the new account on the "from" chain and on the
\* "to" chain and a fee estimation for the current chains and token whose
\* destinationAddress is the new account.
C16_AccountChangeRefetches ==
    [][(account' # account /\ IsSet(chains) /\ IsSet(token)) =>
          /\ \E r \in feeRequests' \ feeRequests :
                /\ r.destinationAddress = account'
                /\ r.from = Get(chains').from
                /\ r.to = Get(chains').to
                /\ r.token = Get(token')
          /\ \E b \in balanceRequests' \ balanceRequests :
                b.side = "from" /\ b.chain = Get(chains').from /\ b.account = account'
          /\ \E b \in balanceRequests' \ balanceRequests :
                b.side = "to" /\ b.chain = Get(chains').to /\ b.account = account']_vars

C16_Witness ==
    /\ account # InitialAccount
    /\ IsSet(chains) /\ IsSet(token)
    /\ \E r \in feeRequests : r.id = feeSeq /\ r.destinationAddress = account
    /\ \E b \in balanceRequests : b.id = balSeq /\ b.account = account

\* C17: once a transaction has been emitted to onSubmit, onFormSubmit can
\* emit no further one and no step changes the draft (chains, token, amount,
\* inputError, estimatedFee).
C17_SubmitOneShot ==
    [][Len(submitted) >= 1 =>
          /\ ~(Rendered /\ canEmit)
          /\ UNCHANGED <<chains, token, amount, inputError, estimatedFee>>]_vars

\* C18: every transaction emitted to onSubmit carries a fee computed by a
\* request for the from, to and token of that transaction and the account
\* of the form.
C18_EmittedFeeMatches ==
    [][submitted' # submitted =>
          LET tx == submitted'[Len(submitted')]
          IN  /\ tx.estimatedFee.from = tx.from
              /\ tx.estimatedFee.to = tx.to
              /\ tx.estimatedFee.token = tx.token
              /\ tx.estimatedFee.destinationAddress = account]_vars

\* C19: whenever the form is rendered, the Continue button is enabled
\* exactly when onFormSubmit would call onSubmit.
C19_GateAgreesWithHandler == Rendered => (~disabled <=> canEmit)

====
